---- MODULE Spec2Model ----
(***************************************************************************)
(* State-machine model of the satellite monitoring agent                   *)
(* (src/agent/agent.go): the status update loop, the concurrent fan-out of *)
(* collectStatus over the serf members, the latest-local-status slot and   *)
(* the Start/Close lifecycle.                                              *)
(*                                                                         *)
(* Goroutines are modelled by program counters:                            *)
(*   loopPc      statusUpdateLoop                                          *)
(*   cpc[g]      the goroutine of the g-th tick (agent.go:224-234)         *)
(*   tpc[g][i]   the per-member task of member i of the g-th collection    *)
(*   closePc     the caller of Close                                       *)
(* Member tags, ports and probe details are not referenced by any          *)
(* property below and are left out of the records.                         *)
(*                                                                         *)
(* The environment (the serf member list, what each checker reports, which *)
(* peers answer) is drawn in Init and stays fixed during a behaviour;      *)
(* failures of Members(), of cache.UpdateStatus and of the serf client's   *)
(* Close are chosen at each call. localStatus and lastServed carry, next   *)
(* to the node status, the number of the collection that produced it.      *)
(* The locals of a collection goroutine are reset when it returns.         *)
(***************************************************************************)
EXTENDS Integers, Sequences, FiniteSets, TLC

\* ------------------------------------------------------------------ bounds
\* number of ticks of the status update loop that are explored
MaxTicks == 2
\* number of cluster members besides the local node
MaxPeers == 1
\* number of checkers registered with the agent
NumCheckers == 1

\* ----------------------------------------------------------- configuration
\* Config.Name: the name of the local agent (and of its serf member)
name == 0

PeerNames == 1..MaxPeers
Cycles == 1..MaxTicks
Checkers == [c \in 1..NumCheckers |-> c]

\* serf member states the membership provider is taken to report
SerfStates == {"alive", "failed"}
\* probe outcomes a checker is taken to report
ProbeStates == {"Running", "Failed"}
\* what a peer is taken to be: answering LocalStatus with this node status,
\* or "down" (the dial or the RPC fails)
PeerStates == {"Healthy"}
PeerOutcomes == PeerStates \cup {"down"}

\* ------------------------------------------------------------ pure helpers
toMemberStatus(status) ==
    CASE status = "alive" -> "Alive"
      [] status = "leaving" -> "Leaving"
      [] status = "left" -> "Left"
      [] status = "failed" -> "Failed"
      [] OTHER -> "None"

statusFromMember(member) ==
    [Name |-> member.Name, Status |-> toMemberStatus(member.Status), Addr |-> <<member.Addr>>]

unknownNodeStatus(member) ==
    [Name |-> member.Name, Status |-> "Unknown",
     MemberStatus |-> statusFromMember(member), Probes |-> <<>>]

emptyNodeStatus(n) ==
    [Name |-> n, Status |-> "Unknown",
     MemberStatus |-> [Name |-> n, Status |-> "None", Addr |-> <<>>], Probes |-> <<>>]

emptySystemStatus == [Status |-> "Unknown", Timestamp |-> 0, Nodes |-> <<>>]

\* health.Probes.Status(): the roll-up of the probes of one node
ProbesStatus(probes) ==
    IF Len(probes) = 0 THEN "Unknown"
    ELSE IF \E i \in DOMAIN probes : probes[i].Status # "Running" THEN "Degraded"
    ELSE "Healthy"

\* the roll-up of the nodes of one system status
setSystemStatus(nodes) ==
    IF Len(nodes) = 0 THEN "Unknown"
    ELSE IF \A i \in DOMAIN nodes :
              nodes[i].Status = "Healthy" /\ nodes[i].MemberStatus.Status = "Alive"
         THEN "Healthy"
    ELSE IF (\E i \in DOMAIN nodes : nodes[i].Status = "Unknown")
            /\ ~(\E i \in DOMAIN nodes : nodes[i].Status = "Degraded")
         THEN "Unknown"
    ELSE "Degraded"

\* a runChecks that leaves the name of the node status unset
runChecksUnnamed(outcome) ==
    LET probes == [c \in 1..Len(Checkers) |-> [Checker |-> Checkers[c], Status |-> outcome[c]]]
    IN [Name |-> -1, Status |-> ProbesStatus(probes), MemberStatus |-> <<>>,
        Probes |-> probes]

\* runChecks: every checker of the registry reports to one reporter, in
\* registry order; outcome[c] is what checker c reports. The member status
\* is left nil (<<>>).
runChecks(outcome) ==
    LET probes == [c \in 1..Len(Checkers) |-> [Checker |-> Checkers[c], Status |-> outcome[c]]]
    IN [Name |-> name, Status |-> ProbesStatus(probes), MemberStatus |-> <<>>,
        Probes |-> probes]

\* ------------------------------------------------------------- environment
Member(n, s) == [Name |-> n, Status |-> s, Addr |-> n]

\* the member lists serf may return: distinct names in serf's (ascending)
\* order, the local member alive
MemberLists ==
    LET Ms == {Member(name, "alive")} \cup {Member(n, s) : n \in PeerNames, s \in SerfStates}
        Seqs == UNION {[1..k -> Ms] : k \in 0..(MaxPeers + 1)}
    IN {s \in Seqs : \A i, j \in DOMAIN s : i < j => s[i].Name < s[j].Name}

CheckOutcomes == [1..Len(Checkers) -> ProbeStates]

\* a statusResponse before the task has filled it in
NoResp == [member |-> Member(name, "alive"), NodeStatus |-> <<>>, err |-> FALSE]

VARIABLES
    serfMembers,  \* environment: the member list the serf agent reports
    checks,       \* environment: checks[c] is what checker c reports
    peers,        \* environment: peers[n] is the outcome of querying peer n
    started,      \* Start has been called
    done,         \* the done channel: "open" or "closed"
    closePc,      \* "open", "returned" (Close has returned)
    serfClient,   \* the serf client: "open", "closed", "closeFailed"
    closeErr,     \* the error Close returned
    loopPc,       \* "none", "tick" (outer select), "wait" (inner select), "exit"
    ticks,        \* number of ticks taken; the current collection is ticks
    ctx,          \* ctx[g]: "none", "active", "deadline", "canceled"
    cpc,          \* cpc[g]: "idle", "members", "fanout", "update", "done"
    members,      \* members[g]: what Members() returned to collection g
    tpc,          \* tpc[g][i]: "run", "send", "done"
    resp,         \* resp[g][i]: the statusResponse of task i
    statuses,     \* statuses[g]: the results channel, as task indexes
    result,       \* result[g]: <<systemStatus>> once collectStatus returned it
    membersErr,   \* membersErr[g]: Members() failed for collection g
    updCalls,     \* updCalls[g]: calls of cache.UpdateStatus by collection g
    localStatus,  \* the latest-local-status slot, with the collection that wrote it
    lastServed,   \* <<value>> returned by the latest LocalStatus call
    checkRuns,    \* number of checker executions so far
    cache         \* the value RecentStatus returns

vars == <<serfMembers, checks, peers, started, done, closePc, serfClient, closeErr, loopPc, ticks, ctx, cpc, members,
          tpc, resp, statuses, result, membersErr, updCalls, localStatus, lastServed,
          checkRuns, cache>>

env == <<serfMembers, checks, peers>>
lifecycle == <<started, done, closePc, serfClient, closeErr>>
loopVars == <<loopPc, ticks>>
taskVars == <<tpc, resp, statuses>>
slotVars == <<localStatus, lastServed, checkRuns>>

doneClosed == done = "closed"

\* context.CancelFunc: the first of cancel and deadline decides ctx.Err()
cancel(c) == IF c = "active" THEN "canceled" ELSE c

ctxDone(c) == c \in {"deadline", "canceled"}

Init ==
    /\ serfMembers \in MemberLists
    /\ checks \in CheckOutcomes
    /\ peers \in [PeerNames -> PeerOutcomes]
    /\ started = FALSE
    /\ done = "open"
    /\ closePc = "open"
    /\ serfClient = "open"
    /\ closeErr = FALSE
    /\ loopPc = "none"
    /\ ticks = 0
    /\ ctx = [g \in Cycles |-> "none"]
    /\ cpc = [g \in Cycles |-> "idle"]
    /\ members = [g \in Cycles |-> <<>>]
    /\ tpc = [g \in Cycles |-> <<>>]
    /\ resp = [g \in Cycles |-> <<>>]
    /\ statuses = [g \in Cycles |-> <<>>]
    /\ result = [g \in Cycles |-> <<>>]
    /\ membersErr = [g \in Cycles |-> FALSE]
    /\ updCalls = [g \in Cycles |-> 0]
    /\ localStatus = [status |-> emptyNodeStatus(name), by |-> 0]
    /\ lastServed = <<>>
    /\ checkRuns = 0
    /\ cache = emptySystemStatus

\* ------------------------------------------------------------- lifecycle
Start ==
    /\ ~started
    /\ started' = TRUE
    /\ loopPc' = "tick"
    /\ UNCHANGED <<env, done, closePc, serfClient, closeErr, ticks, ctx, cpc, members, taskVars,
                   result, membersErr, updCalls, slotVars, cache>>

\* Close without the shutdown broadcast
closeDoneSkipped == "open"

\* what close(r.done) leaves the done channel as
closeDone == "closed"

\* Close: the RPC server is stopped, shutdown is broadcast, the serf client
\* is closed and its error, if any, returned
Close ==
    /\ started
    /\ closePc = "open"
    /\ done' = closeDone
    /\ \E serfErr \in BOOLEAN :
          /\ serfClient' = IF serfErr THEN "closeFailed" ELSE "closed"
          /\ closeErr' = serfErr
    /\ closePc' = "returned"
    /\ UNCHANGED <<env, started, loopVars, ctx, cpc, members, taskVars,
                   result, membersErr, updCalls, slotVars, cache>>

\* ------------------------------------------------------ statusUpdateLoop
\* the clock fires: a context with the query deadline, the collection
\* goroutine is spawned, the loop enters the inner select. Every pass of the
\* outer select arms a fresh timer, so with done already closed only the
\* done case is ready: no tick is taken once done is closed.
Tick ==
    /\ loopPc = "tick"
    /\ ~doneClosed
    /\ ticks < MaxTicks
    /\ ticks' = ticks + 1
    /\ ctx' = [ctx EXCEPT ![ticks + 1] = "active"]
    /\ cpc' = [cpc EXCEPT ![ticks + 1] = "members"]
    /\ loopPc' = "wait"
    /\ UNCHANGED <<env, lifecycle, members, taskVars, result, membersErr,
                   updCalls, slotVars, cache>>

\* an inner select on a context without deadline
loopCtxDoneNoDeadline(c) == c = "canceled"

\* what the inner select takes for "the context is done"
loopCtxDone(c) == ctxDone(c)

\* inner select, case <-ctx.Done()
LoopCtxDone ==
    /\ loopPc = "wait"
    /\ loopCtxDone(ctx[ticks])
    /\ loopPc' = "tick"
    /\ UNCHANGED <<env, lifecycle, ticks, ctx, cpc, members, taskVars, result,
                   membersErr, updCalls, slotVars, cache>>

\* inner select, case <-r.done: cancel and return
LoopDoneInner ==
    /\ loopPc = "wait"
    /\ doneClosed
    /\ ctx' = [ctx EXCEPT ![ticks] = cancel(@)]
    /\ loopPc' = "exit"
    /\ UNCHANGED <<env, lifecycle, ticks, cpc, members, taskVars, result,
                   membersErr, updCalls, slotVars, cache>>

\* outer select, case <-r.done
LoopDoneOuter ==
    /\ loopPc = "tick"
    /\ doneClosed
    /\ loopPc' = "exit"
    /\ UNCHANGED <<env, lifecycle, ticks, ctx, cpc, members, taskVars, result,
                   membersErr, updCalls, slotVars, cache>>

\* the timer of context.WithTimeout fires
Deadline(g) ==
    /\ ctx[g] = "active"
    /\ ctx' = [ctx EXCEPT ![g] = "deadline"]
    /\ UNCHANGED <<env, lifecycle, loopVars, cpc, members, taskVars, result,
                   membersErr, updCalls, slotVars, cache>>

\* --------------------------------------------------------- collectStatus
\* a collectStatus that also gives up on an empty member list
membersFailedOrEmpty(err, ms) == err \/ Len(ms) = 0

\* the test collectStatus makes on what Members() returned: err != nil
membersFailed(err, ms) == err

\* collectStatus going on with the members it got, whatever the error
afterMembersIgnoreErr(err) == "fanout"

\* where collectStatus goes after Members(): back to the caller with the
\* error, or on to the fan-out
afterMembers(err) == IF err THEN "done" ELSE "fanout"

\* Members(), then either the error return (the goroutine logs, returns and
\* its deferred cancel runs) or the fan-out of one task per member
CollectMembers(g) ==
    /\ cpc[g] = "members"
    /\ \E err \in BOOLEAN :
          LET ms == IF err THEN <<>> ELSE serfMembers
              next == afterMembers(membersFailed(err, ms))
          IN /\ membersErr' = [membersErr EXCEPT ![g] = err]
             /\ cpc' = [cpc EXCEPT ![g] = next]
             /\ IF next = "done"
                   THEN /\ ctx' = [ctx EXCEPT ![g] = cancel(@)]
                        /\ UNCHANGED <<members, taskVars>>
                   ELSE /\ members' = [members EXCEPT ![g] = ms]
                        /\ tpc' = [tpc EXCEPT ![g] = [i \in 1..Len(ms) |-> "run"]]
                        /\ resp' = [resp EXCEPT ![g] = [i \in 1..Len(ms) |-> NoResp]]
                        /\ statuses' = [statuses EXCEPT ![g] = <<>>]
                        /\ UNCHANGED ctx
    /\ UNCHANGED <<env, lifecycle, loopVars, result, updCalls, slotVars, cache>>

\* collectLocalStatus: run the checkers, attach the member status, publish
\* the status to the latest-local-status slot
collectLocalStatus(g, local, outcome) ==
    [status |-> [runChecks(outcome) EXCEPT !.MemberStatus = statusFromMember(local)],
     by |-> g]

IsTask(g, i) == cpc[g] = "fanout" /\ i \in DOMAIN tpc[g]

\* a fan-out that takes every member for the local node
isLocalAlways(member) == TRUE

\* the test of the fan-out: r.name == member.Name
isLocal(member) == member.Name = name

\* getLocalStatus up to the select
TaskLocal(g, i) ==
    /\ IsTask(g, i)
    /\ tpc[g][i] = "run"
    /\ isLocal(members[g][i])
    /\ LET st == collectLocalStatus(g, members[g][i], checks)
       IN /\ localStatus' = st
          /\ resp' = [resp EXCEPT ![g][i] =
                         [member |-> members[g][i], NodeStatus |-> <<st.status>>,
                          err |-> FALSE]]
    /\ checkRuns' = checkRuns + Len(Checkers)
    /\ tpc' = [tpc EXCEPT ![g][i] = "send"]
    /\ UNCHANGED <<env, lifecycle, loopVars, ctx, cpc, members, statuses, result,
                   membersErr, updCalls, lastServed, cache>>

\* getStatusFrom up to the select, dialRPC fails
TaskDialErr(g, i) ==
    /\ IsTask(g, i)
    /\ tpc[g][i] = "run"
    /\ ~isLocal(members[g][i])
    /\ peers[members[g][i].Name] = "down"
    /\ resp' = [resp EXCEPT ![g][i] =
                   [member |-> members[g][i], NodeStatus |-> <<>>, err |-> TRUE]]
    /\ tpc' = [tpc EXCEPT ![g][i] = "send"]
    /\ UNCHANGED <<env, lifecycle, loopVars, ctx, cpc, members, statuses, result,
                   membersErr, updCalls, slotVars, cache>>

\* the node status the peer behind member answers LocalStatus with
PeerReply(member) ==
    [Name |-> member.Name, Status |-> peers[member.Name],
     MemberStatus |-> statusFromMember(member), Probes |-> <<>>]

\* getStatusFrom up to the select, dialRPC succeeds: client.LocalStatus(ctx)
\* answers or fails
TaskRPC(g, i) ==
    /\ IsTask(g, i)
    /\ tpc[g][i] = "run"
    /\ ~isLocal(members[g][i])
    /\ resp' = [resp EXCEPT ![g][i] =
                   IF peers[members[g][i].Name] = "down"
                   THEN [member |-> members[g][i], NodeStatus |-> <<>>, err |-> TRUE]
                   ELSE [member |-> members[g][i],
                         NodeStatus |-> <<PeerReply(members[g][i])>>, err |-> FALSE]]
    /\ tpc' = [tpc EXCEPT ![g][i] = "send"]
    /\ UNCHANGED <<env, lifecycle, loopVars, ctx, cpc, members, statuses, result,
                   membersErr, updCalls, slotVars, cache>>

\* an unbuffered results channel
chanCapUnbuffered(ms) == 0

\* the capacity of the results channel: make(chan *statusResponse, len(members))
chanCap(ms) == Len(ms)

\* the select of a task takes the send: respc <- resp, then wg.Done
TaskSend(g, i) ==
    /\ IsTask(g, i)
    /\ tpc[g][i] = "send"
    /\ Len(statuses[g]) < chanCap(members[g])
    /\ statuses' = [statuses EXCEPT ![g] = Append(@, i)]
    /\ tpc' = [tpc EXCEPT ![g][i] = "done"]
    /\ UNCHANGED <<env, lifecycle, loopVars, ctx, cpc, members, resp, result,
                   membersErr, updCalls, slotVars, cache>>

\* the select of a task takes <-r.done: nothing is sent, then wg.Done
TaskDrop(g, i) ==
    /\ IsTask(g, i)
    /\ tpc[g][i] = "send"
    /\ doneClosed
    /\ tpc' = [tpc EXCEPT ![g][i] = "done"]
    /\ UNCHANGED <<env, lifecycle, loopVars, ctx, cpc, members, resp, statuses,
                   result, membersErr, updCalls, slotVars, cache>>

\* the loop over the closed channel: one node per response, in channel
\* order, an Unknown status for a response with an error
drain(chan, rs) ==
    [k \in 1..Len(chan) |->
        IF rs[chan[k]].err THEN unknownNodeStatus(rs[chan[k]].member)
        ELSE rs[chan[k]].NodeStatus[1]]

\* a collectStatus that returns without calling setSystemStatus
systemStatusNotSet(nodes, g) == [Status |-> "Unknown", Timestamp |-> g, Nodes |-> nodes]

\* the status collectStatus returns: created Unknown with the timestamp of
\* the collection, filled with the nodes, rolled up by setSystemStatus
systemStatusOf(nodes, g) ==
    [Status |-> setSystemStatus(nodes), Timestamp |-> g, Nodes |-> nodes]

\* wg.Wait returns, the channel is closed and drained, collectStatus returns
Barrier(g) ==
    /\ cpc[g] = "fanout"
    /\ \A i \in DOMAIN tpc[g] : tpc[g][i] = "done"
    /\ result' = [result EXCEPT ![g] = <<systemStatusOf(drain(statuses[g], resp[g]), g)>>]
    /\ cpc' = [cpc EXCEPT ![g] = "update"]
    /\ UNCHANGED <<env, lifecycle, loopVars, ctx, members, taskVars, membersErr,
                   updCalls, slotVars, cache>>

\* cache.UpdateStatus: the cache stores the status unless it fails
UpdateStatus(old, status, fails) == IF fails THEN old ELSE status

\* a goroutine that offers the status again until the cache takes it
afterUpdateRetry(fails) == IF fails THEN "update" ELSE "done"

\* where the goroutine of the tick goes after cache.UpdateStatus: it logs a
\* failure and returns either way
afterUpdate(fails) == "done"

\* the goroutine of the tick offers the status to the cache, logs a failure,
\* returns; the deferred cancel runs and the frame is released
UpdateCache(g) ==
    /\ cpc[g] = "update"
    /\ \E fails \in BOOLEAN :
          /\ cache' = UpdateStatus(cache, result[g][1], fails)
          /\ cpc' = [cpc EXCEPT ![g] = afterUpdate(fails)]
          /\ IF afterUpdate(fails) = "done"
                THEN /\ ctx' = [ctx EXCEPT ![g] = cancel(@)]
                     /\ members' = [members EXCEPT ![g] = <<>>]
                     /\ tpc' = [tpc EXCEPT ![g] = <<>>]
                     /\ resp' = [resp EXCEPT ![g] = <<>>]
                     /\ statuses' = [statuses EXCEPT ![g] = <<>>]
                     /\ result' = [result EXCEPT ![g] = <<>>]
                ELSE UNCHANGED <<ctx, members, taskVars, result>>
    /\ updCalls' = [updCalls EXCEPT ![g] = @ + 1]
    /\ UNCHANGED <<env, lifecycle, loopVars, membersErr, slotVars>>

\* ------------------------------------------------------------ LocalStatus
\* a LocalStatus that answers with the status the agent was constructed with
recentLocalStatusInitial == [status |-> emptyNodeStatus(name), by |-> 0]

recentLocalStatus == localStatus

\* LocalStatus, called locally or served to a peer
LocalStatus ==
    /\ lastServed' = <<recentLocalStatus>>
    /\ UNCHANGED <<env, lifecycle, loopVars, ctx, cpc, members, taskVars, result,
                   membersErr, updCalls, localStatus, checkRuns, cache>>

\* ---------------------------------------------------------- specification
Next ==
    \/ Start
    \/ Close
    \/ Tick
    \/ LoopCtxDone
    \/ LoopDoneInner
    \/ LoopDoneOuter
    \/ \E g \in Cycles : Deadline(g)
    \/ \E g \in Cycles : CollectMembers(g)
    \/ \E g \in Cycles : \E i \in 1..(MaxPeers + 1) : TaskLocal(g, i)
    \/ \E g \in Cycles : \E i \in 1..(MaxPeers + 1) : TaskDialErr(g, i)
    \/ \E g \in Cycles : \E i \in 1..(MaxPeers + 1) : TaskRPC(g, i)
    \/ \E g \in Cycles : \E i \in 1..(MaxPeers + 1) : TaskSend(g, i)
    \/ \E g \in Cycles : \E i \in 1..(MaxPeers + 1) : TaskDrop(g, i)
    \/ \E g \in Cycles : Barrier(g)
    \/ \E g \in Cycles : UpdateCache(g)
    \/ LocalStatus

Spec == Init /\ [][Next]_vars

\* The clock and the deadline timer fire, and the scheduler runs the loop
\* goroutine. Nothing obliges a checker, a dial or an RPC to return, nor the
\* user to call Start, Close or LocalStatus.
Fairness ==
    /\ WF_vars(Tick)
    /\ WF_vars(LoopCtxDone)
    /\ WF_vars(LoopDoneInner)
    /\ WF_vars(LoopDoneOuter)
    /\ \A g \in Cycles : WF_vars(Deadline(g))

\* Progress of the loop does not depend on the readings; it is explored for
\* the environments in which every checker passes and every member is alive.
FairInit ==
    /\ Init
    /\ \A c \in DOMAIN checks : checks[c] = "Running"
    /\ \A i \in DOMAIN serfMembers : serfMembers[i].Status = "alive"

FairSpec == FairInit /\ [][Next]_vars /\ Fairness

\* The scheduler runs every goroutine that can take a step: a task at its
\* select takes one of the ready cases, collectStatus passes a released
\* barrier, the goroutine of the tick goes on once collectStatus returned.
\* A dial and an RPC return, the RPC being bounded by the context. Nothing
\* obliges a checker or Members() to return.
TaskFairness ==
    /\ \A g \in Cycles : \A i \in 1..(MaxPeers + 1) :
          /\ WF_vars(TaskSend(g, i) \/ TaskDrop(g, i))
          /\ WF_vars(TaskDialErr(g, i) \/ TaskRPC(g, i))
    /\ \A g \in Cycles : WF_vars(Barrier(g))
    /\ \A g \in Cycles : WF_vars(UpdateCache(g))

SchedSpec == FairInit /\ [][Next]_vars /\ Fairness /\ TaskFairness

\* ------------------------------------------------------------- properties
\* collectStatus of collection g is still executing
InFlight(g) == cpc[g] \in {"members", "fanout"}

\* collectStatus of collection g has returned a status without error
Returned(g) == cpc[g] = "update"

\* C1: at most one collectStatus spawned by statusUpdateLoop is executing
\* at any time, also when an earlier collection overran its deadline.
C1_AtMostOneInFlight == Cardinality({g \in Cycles : InFlight(g)}) <= 1

\* C2: a collectStatus that returns without error returns as many nodes as
\* Members() returned members, whatever the interleaving with Close.
C2_NodeCountEqualsMemberCount ==
    \A g \in Cycles : Returned(g) => Len(result[g][1].Nodes) = Len(members[g])

\* C3: the nodes of a returned status are in the order of the members
\* returned by Members(), whatever the completion order of the tasks.
C3_NodesInMemberOrder ==
    \A g \in Cycles : Returned(g) =>
        LET nodes == result[g][1].Nodes
            MemberIndex(ms, n) == CHOOSE i \in DOMAIN ms : ms[i].Name = n
        IN \A j, k \in DOMAIN nodes :
              j < k => MemberIndex(members[g], nodes[j].Name)
                         < MemberIndex(members[g], nodes[k].Name)

C5_FailedMemberReportedUnknown ==
    \A g \in Cycles : Returned(g) =>
        \A i \in DOMAIN members[g] : resp[g][i].err =>
            \E k \in DOMAIN result[g][1].Nodes :
                LET n == result[g][1].Nodes[k]
                IN /\ n.Name = members[g][i].Name
                   /\ n.Status = "Unknown"
                   /\ n.MemberStatus.Name = members[g][i].Name
                   /\ (members[g][i].Status = "alive" => n.MemberStatus.Status = "Alive")
                   /\ (members[g][i].Status = "failed" => n.MemberStatus.Status = "Failed")

\* C6: a collection whose deadline has expired does not update the cache
\* any more.
C6_NoCacheUpdateAfterDeadline ==
    [][\A g \in Cycles : updCalls'[g] > updCalls[g] => ctx[g] # "deadline"]_vars

\* C7: while the agent is not closed the loop is never stuck behind a
\* collection: from every state of a started agent with k ticks taken, the
\* next tick is eventually taken or the agent is closed, whether or not
\* the collections in flight ever return.
C7_NextTickTaken ==
    \A k \in 0..(MaxTicks - 1) :
        (started /\ ticks = k /\ ~doneClosed) ~> (ticks > k \/ doneClosed)

C7_Witness ==
    \E g \in Cycles : ctx[g] = "deadline" /\ InFlight(g) /\ ticks > g

\* C8: once Close has been called the loop eventually exits, no collection
\* is started after the shutdown broadcast, and Close returns no error when
\* the serf client closed without error.
C8_CloseStopsLoop ==
    /\ (closePc = "returned") ~> (loopPc = "exit")
    /\ [][doneClosed => ticks' = ticks]_vars
    /\ []((closePc = "returned" /\ serfClient = "closed") => ~closeErr)

C8_Witness ==
    /\ closePc = "returned"
    /\ serfClient = "closed"
    /\ ~closeErr
    /\ loopPc = "exit"
    /\ \E g \in Cycles : InFlight(g)

\* C9: the collections whose statuses successive LocalStatus calls return
\* never go back: a call never returns the status of a collection started
\* before the collection whose status an earlier call returned.
C9_ServedNeverOlder ==
    [][(lastServed # <<>> /\ lastServed' # <<>>) => lastServed'[1].by >= lastServed[1].by]_vars

\* C10: a LocalStatus call returns what the latest-local-status slot holds
\* and neither runs a checker nor starts or advances a collection.
C10_LocalStatusServesSlot ==
    [][lastServed' # lastServed =>
          /\ lastServed' = <<localStatus>>
          /\ localStatus' = localStatus
          /\ checkRuns' = checkRuns
          /\ ticks' = ticks
          /\ cpc' = cpc
          /\ tpc' = tpc]_vars

C10_Witness ==
    /\ lastServed # <<>>
    /\ lastServed[1].by > 0
    /\ lastServed[1] = localStatus
    /\ checkRuns > 0

\* C11 as stated: every system status collectStatus returns is Healthy if
\* and only if each of its nodes is Healthy and each node's member is Alive.
C11_HealthyIffAllHealthyAlive ==
    \A g \in Cycles :
        Returned(g) =>
            (result[g][1].Status = "Healthy"
                <=> \A i \in DOMAIN result[g][1].Nodes :
                        /\ result[g][1].Nodes[i].Status = "Healthy"
                        /\ result[g][1].Nodes[i].MemberStatus.Status = "Alive")

\* C11: a system status collectStatus returns with at least one node is
\* Healthy if and only if each of its nodes is Healthy and each node's member
\* is Alive; one it returns without nodes is Unknown.
C11_HealthyIffNonEmptyAllHealthyAlive ==
    \A g \in Cycles :
        Returned(g) =>
            IF Len(result[g][1].Nodes) = 0
            THEN result[g][1].Status = "Unknown"
            ELSE (result[g][1].Status = "Healthy"
                    <=> \A i \in DOMAIN result[g][1].Nodes :
                            /\ result[g][1].Nodes[i].Status = "Healthy"
                            /\ result[g][1].Nodes[i].MemberStatus.Status = "Alive")

C11_Witness ==
    \E g \in Cycles :
        /\ Returned(g)
        /\ Len(result[g][1].Nodes) = MaxPeers + 1
        /\ result[g][1].Status = "Healthy"
        /\ \A i \in DOMAIN result[g][1].Nodes :
               /\ result[g][1].Nodes[i].Status = "Healthy"
               /\ result[g][1].Nodes[i].MemberStatus.Status = "Alive"

\* C12: when Members() returns an empty list without error, collectStatus
\* returns, without error, a system status with no nodes and status Unknown,
\* which the goroutine of the tick offers to the cache.
C12_EmptyMembersUnknown ==
    \A g \in Cycles :
        /\ (Returned(g) /\ Len(members[g]) = 0) =>
               /\ result[g][1].Nodes = <<>>
               /\ result[g][1].Status = "Unknown"
        /\ (cpc[g] = "done" /\ ~membersErr[g] /\ Len(serfMembers) = 0) => updCalls[g] = 1

C12_Witness ==
    \E g \in Cycles :
        /\ Returned(g)
        /\ Len(serfMembers) = 0
        /\ ~membersErr[g]
        /\ result[g][1].Nodes = <<>>
        /\ result[g][1].Status = "Unknown"

\* C13: a local node status written by a collection whose context was
\* cancelled or past its deadline before the checkers completed is Degraded
\* and reports each of those checkers as a Failed probe.
C13_CancelledCheckerReportedFailed ==
    [][\A g \in Cycles :
          (ctxDone(ctx[g]) /\ localStatus' # localStatus /\ localStatus'.by = g) =>
              /\ localStatus'.status.Status = "Degraded"
              /\ Len(localStatus'.status.Probes) = Len(Checkers)
              /\ \A p \in DOMAIN localStatus'.status.Probes :
                     localStatus'.status.Probes[p].Status = "Failed"]_vars

\* C14: two collectStatus runs over the same member list, checker outcomes
\* and peer responses return the same nodes and the same status: the status
\* a later collection returns equals, timestamp apart, the status of an
\* earlier collection that the cache holds.
C14_RunsDifferOnlyInTimestamp ==
    \A g \in Cycles :
        (Returned(g) /\ cache.Timestamp \notin {0, g}) =>
            /\ result[g][1].Nodes = cache.Nodes
            /\ result[g][1].Status = cache.Status

\* C15: the latest-local-status slot changes only in the step in which the
\* task of the local member runs collectLocalStatus; querying a peer,
\* answering for a member that failed and serving LocalStatus leave it as is.
C15_SlotWrittenOnlyByLocalCollection ==
    [][localStatus' # localStatus =>
          \E g \in Cycles :
              \E i \in DOMAIN tpc[g] :
                  /\ cpc[g] = "fanout"
                  /\ members[g][i].Name = name
                  /\ tpc[g][i] = "run"
                  /\ tpc'[g][i] = "send"
                  /\ lastServed' = lastServed]_vars

C15_Witness ==
    \E g \in Cycles :
        \E i \in DOMAIN tpc[g] :
            /\ cpc[g] = "fanout"
            /\ members[g][i].Name # name
            /\ tpc[g][i] = "done"
            /\ resp[g][i].err
            /\ localStatus.by = g
            /\ lastServed = <<localStatus>>

\* C16: once Close has broadcast the shutdown, every task of a collection
\* that is still active terminates and the barrier of the collection is
\* released: the collection leaves its fan-out.
C16_TasksEndAfterShutdown ==
    \A g \in Cycles : (doneClosed /\ cpc[g] = "fanout") ~> (cpc[g] # "fanout")

\* C17: a failing cache.UpdateStatus ends the goroutine of the tick and
\* leaves the loop and the shutdown signal as they are; the loop then takes
\* its next tick, which starts a new collection, unless the agent is closed.
C17_CacheFailureNotFatal ==
    /\ [][\A g \in Cycles :
            (updCalls'[g] = updCalls[g] + 1 /\ cache' = cache) =>
                /\ cpc'[g] = "done"
                /\ ctxDone(ctx'[g])
                /\ loopPc' = loopPc
                /\ ticks' = ticks
                /\ done' = done]_vars
    /\ \A g \in 1..(MaxTicks - 1) :
          (cpc[g] = "done" /\ updCalls[g] = 1 /\ cache.Timestamp # g /\ ~doneClosed)
            ~> (doneClosed \/ (ticks > g /\ cpc[g + 1] # "idle"))

C17_Witness ==
    /\ cpc[1] = "done"
    /\ updCalls[1] = 1
    /\ cache = emptySystemStatus
    /\ Returned(2)
    /\ ~doneClosed

\* C18: in one collectStatus run no task sends twice, the results channel
\* never holds more than len(members) items and a task at its select can
\* always send; so once no checker run, dial or RPC of the run is pending,
\* the barrier is released, with or without Close.
C18_SendNeverBlocks ==
    /\ [](\A g \in Cycles :
            /\ Len(statuses[g]) <= Len(members[g])
            /\ \A j, k \in DOMAIN statuses[g] : j # k => statuses[g][j] # statuses[g][k]
            /\ \A i \in DOMAIN tpc[g] :
                   (cpc[g] = "fanout" /\ tpc[g][i] = "send") => ENABLED TaskSend(g, i))
    /\ \A g \in Cycles :
          (cpc[g] = "fanout" /\ \A i \in DOMAIN tpc[g] : tpc[g][i] # "run")
            ~> (cpc[g] # "fanout")

C18_Witness ==
    \E g \in Cycles :
        /\ cpc[g] = "fanout"
        /\ Len(members[g]) = MaxPeers + 1
        /\ Len(statuses[g]) = MaxPeers
        /\ \E i \in DOMAIN tpc[g] : tpc[g][i] = "send"
        /\ ~doneClosed

\* C19: cache.UpdateStatus is called only with the status of a collectStatus
\* that returned without error, at most once by the collection of a tick,
\* and never after Close has returned.
C19_CacheUpdatedOnlyWhileOpen ==
    [][\A g \in Cycles :
          updCalls'[g] > updCalls[g] =>
              /\ Returned(g)
              /\ ~membersErr[g]
              /\ updCalls[g] = 0
              /\ closePc # "returned"]_vars

\* C20: the latest-local-status slot always holds a node status named after
\* the agent, the empty status with status Unknown until a local collection
\* has written it; so does every value LocalStatus returns.
C20_SlotNamedAfterAgent ==
    /\ localStatus.status.Name = name
    /\ localStatus.by = 0 =>
           /\ localStatus.status = emptyNodeStatus(name)
           /\ localStatus.status.Status = "Unknown"
    /\ lastServed # <<>> => lastServed[1].status.Name = name

C20_Witness ==
    /\ lastServed # <<>>
    /\ lastServed[1].by = 0
    /\ lastServed[1].status = emptyNodeStatus(name)
    /\ localStatus.by = MaxTicks
    /\ localStatus.status.Name = name
    /\ Len(localStatus.status.Probes) = NumCheckers

====
